---- MODULE Spec2Model ----
(***************************************************************************)
(* Model of src/app.py (syllabi-to-calendar): the oracle-driven extractor  *)
(* extract_events_with_ollama, the date resolution done inside             *)
(* add_events_to_calendar, and the calendar synchronisation loop that      *)
(* upload_file drives.                                                     *)
(*                                                                         *)
(* Three specifications share the module's variables:                      *)
(*   Spec         upload_file -> extract -> add_events_to_calendar, with   *)
(*                the wall clock and the external calendar store;          *)
(*   SpecExtract  extract_events_with_ollama over bounded oracle           *)
(*                behaviours;                                              *)
(*   SpecResolve  the date resolution of app.py:223 over bounded raw dates.*)
(*                                                                         *)
(* Text is modelled at the level of lexemes.  An oracle response is a      *)
(* sequence over  "[" "]" "," "{k" "}" "n" "w" "oA" "oB" "oC"  where "{k"  *)
(* is an object opener with its key ({"events":), "n" a non-zero number    *)
(* literal, "w" a prose word and "oX" a complete object literal.  White    *)
(* space is insignificant at this level (str.strip and JSON both drop it). *)
(* A raw date string is a sequence of blank-separated date tokens.         *)
(***************************************************************************)
EXTENDS Integers, Sequences, FiniteSets, TLC

VARIABLES
    pc,          \* position of the upload_file request: "idle" or "sync"
    response,    \* the oracle's response text for the uploaded syllabus
    events,      \* events_and_dates / the events argument of the sync
    idx,         \* position of the for loop of add_events_to_calendar
    added_count, \* add_events_to_calendar's local counter
    calendar,    \* the external calendar store: inserted events, in order
    now,         \* the wall clock (datetime.now()), a calendar day
    ticks,       \* days elapsed on the wall clock
    runs,        \* number of upload_file requests started
    result,      \* outcome of the last add_events_to_calendar call
    issued,      \* items of this call for which insert was invoked
    skipped,     \* items of this call whose date did not resolve
    oracle,      \* SpecExtract: the behaviour of ollama.chat
    extracted,   \* SpecExtract: what extract_events_with_ollama did
    rawDate,     \* SpecResolve: the raw date string
    resolved     \* SpecResolve: the outcome of resolving it

vars == <<pc, response, events, idx, added_count, calendar, now, ticks, runs,
          result, issued, skipped, oracle, extracted, rawDate, resolved>>

syncVars == <<pc, response, events, idx, added_count, calendar, now, ticks,
              runs, result, issued, skipped>>
extractVars == <<oracle, extracted>>
resolveVars == <<rawDate, resolved>>

----------------------------------------------------------------------------
(* Bounds *)

MaxLen == 5
MaxBatch == 3
MaxRuns == 2
MaxTicks == 1
MaxRawLen == 3
StartYear == 2025

----------------------------------------------------------------------------
(* Sequences *)

RECURSIVE SeqsUpTo(_, _)
SeqsUpTo(S, n) ==
    IF n = 0 THEN {<<>>}
    ELSE LET shorter == SeqsUpTo(S, n - 1)
         IN  shorter \cup {Append(s, x) : s \in shorter, x \in S}

Min(S) == CHOOSE x \in S : \A y \in S : x <= y
Max(S) == CHOOSE x \in S : \A y \in S : x >= y

----------------------------------------------------------------------------
(* JSON values, as json.loads builds them *)

NumVal == [t |-> "num", v |-> <<>>, id |-> ""]
StrVal == [t |-> "str", v |-> <<>>, id |-> ""]
ObjVal(name) == [t |-> "obj", v |-> <<>>, id |-> name]
DictVal(inner) == [t |-> "dict", v |-> <<inner>>, id |-> ""]
ArrVal(elems) == [t |-> "arr", v |-> elems, id |-> ""]
EmptyList == ArrVal(<<>>)
NoVal == [t |-> "none", v |-> <<>>, id |-> ""]

ObjectLexemes == {"oA", "oB", "oC"}
Openers == {"[", "{k"}
Closers == {"]", "}"}

Depth(s, i) ==
    Cardinality({k \in 1..(i - 1) : s[k] \in Openers})
        - Cardinality({k \in 1..(i - 1) : s[k] \in Closers})

TopCommas(s) == {i \in 1..Len(s) : s[i] = "," /\ Depth(s, i) = 0}

RECURSIVE SplitTop(_)
SplitTop(s) ==
    IF TopCommas(s) = {} THEN <<s>>
    ELSE LET c == Min(TopCommas(s))
         IN  <<SubSeq(s, 1, c - 1)>> \o SplitTop(SubSeq(s, c + 1, Len(s)))

(* json.loads: [ok |-> TRUE, val |-> value] or, for JSONDecodeError,        *)
(* [ok |-> FALSE, val |-> NoVal].                                          *)
Malformed == [ok |-> FALSE, val |-> NoVal]

RECURSIVE json_loads(_)
json_loads(s) ==
    IF Len(s) = 0 THEN Malformed
    ELSE IF Len(s) = 1 THEN
        IF s[1] = "n" THEN [ok |-> TRUE, val |-> NumVal]
        ELSE IF s[1] \in ObjectLexemes THEN [ok |-> TRUE, val |-> ObjVal(s[1])]
        ELSE Malformed
    ELSE IF s[1] = "[" /\ s[Len(s)] = "]" THEN
        LET inner == SubSeq(s, 2, Len(s) - 1)
        IN  IF Len(inner) = 0 THEN [ok |-> TRUE, val |-> EmptyList]
            ELSE LET parts == SplitTop(inner)
                     parsed == [i \in 1..Len(parts) |-> json_loads(parts[i])]
                 IN  IF \A i \in 1..Len(parts) : parsed[i].ok
                     THEN [ok |-> TRUE,
                           val |-> ArrVal([i \in 1..Len(parts) |-> parsed[i].val])]
                     ELSE Malformed
    ELSE IF s[1] = "{k" /\ s[Len(s)] = "}" THEN
        LET inner == json_loads(SubSeq(s, 2, Len(s) - 1))
        IN  IF inner.ok THEN [ok |-> TRUE, val |-> DictVal(inner.val)]
            ELSE Malformed
    ELSE Malformed

----------------------------------------------------------------------------
(* extract_events_with_ollama *)

(* re.search(r'\[.*\]', response_text, re.DOTALL): the leftmost "[" that    *)
(* has a "]" after it, extended greedily to the last "]" of the text.       *)
NoMatch == [found |-> FALSE, span |-> <<>>]

re_search_nongreedy(text) ==
    LET opens == {i \in 1..Len(text) : text[i] = "["}
        closes == {j \in 1..Len(text) : text[j] = "]"}
    IN  IF \E i \in opens, j \in closes : i < j
        THEN [found |-> TRUE,
              span |-> SubSeq(text, Min(opens),
                              Min({j \in closes : j > Min(opens)}))]
        ELSE NoMatch

re_search(text) ==
    LET opens == {i \in 1..Len(text) : text[i] = "["}
        closes == {j \in 1..Len(text) : text[j] = "]"}
    IN  IF \E i \in opens, j \in closes : i < j
        THEN [found |-> TRUE, span |-> SubSeq(text, Min(opens), Max(closes))]
        ELSE NoMatch

(* Lines 160-163: the text handed to json.loads. *)
ChooseText(text) ==
    LET json_match == re_search(text)
    IN  IF json_match.found THEN json_match.span ELSE text

(* Behaviours of ollama.chat (line 155) and of the subscripts of line 158. *)
(*   kind "raise":  the call raises exception class exc;                   *)
(*   kind "nokey":  the response lacks 'message' or 'content' (KeyError);  *)
(*   kind "text":   response['message']['content'] is the text.            *)
ChatRaises(e) == [kind |-> "raise", exc |-> e, text |-> <<>>]
ChatNoKey == [kind |-> "nokey", exc |-> "", text |-> <<>>]
ChatText(t) == [kind |-> "text", exc |-> "", text |-> t]

Returned(v) == [raised |-> FALSE, exc |-> "", val |-> v]
Raised(e) == [raised |-> TRUE, exc |-> e, val |-> NoVal]

(* The handler of lines 169-172 reads response_text, which is bound only   *)
(* once line 158 has completed.                                            *)
OnJSONDecodeError_Reraise(bound) == Raised("JSONDecodeError")

OnJSONDecodeError(bound) ==
    IF bound THEN Returned(EmptyList) ELSE Raised("UnboundLocalError")

(* Lines 173-175. *)
OnException == Returned(EmptyList)

extract_events_with_ollama(o) ==
    IF o.kind = "raise" THEN
        IF o.exc = "JSONDecodeError" THEN OnJSONDecodeError(FALSE)
        ELSE OnException
    ELSE IF o.kind = "nokey" THEN OnException
    ELSE LET parsed == json_loads(ChooseText(o.text))
         IN  IF parsed.ok THEN Returned(parsed.val)
             ELSE OnJSONDecodeError(TRUE)

----------------------------------------------------------------------------
(* Date resolution: date_parser.parse(f"{date_str} {datetime.now().year}") *)

(* Date tokens.  len is the number of digits of a numeric token. *)
MonTok(m) == [k |-> "mon", v |-> m, len |-> 0]
NumTok(n) == [k |-> "num", v |-> n,
              len |-> IF n < 10 THEN 1 ELSE IF n < 100 THEN 2
                      ELSE IF n < 1000 THEN 3 ELSE 4]
WordTok == [k |-> "word", v |-> 0, len |-> 0]

IsLeap(y) == (y % 4 = 0 /\ y % 100 # 0) \/ y % 400 = 0

DaysInMonth(y, m) ==
    IF m = 2 THEN (IF IsLeap(y) THEN 29 ELSE 28)
    ELSE IF m \in {4, 6, 9, 11} THEN 30 ELSE 31

(* The wall clock, one day later. *)
NextDay(d) ==
    IF d.day < DaysInMonth(d.year, d.month)
    THEN [d EXCEPT !.day = d.day + 1]
    ELSE IF d.month < 12 THEN [year |-> d.year, month |-> d.month + 1, day |-> 1]
    ELSE [year |-> d.year + 1, month |-> 1, day |-> 1]

(* dateutil's _ymd accumulator and the time fields of its result; an index *)
(* of 0 and a field of -1 stand for None.                                  *)
Ymd0 == [ymd |-> <<>>, mstridx |-> 0, ystridx |-> 0, century |-> FALSE,
         hour |-> -1, minute |-> -1, err |-> FALSE]

(* _ymd.append(val, label): a value above 100 is labelled a year; a second *)
(* month or a second year raises ValueError.                               *)
YmdAppend(st, val, label) ==
    LET lab == IF val > 100 THEN "Y" ELSE label
        n == Len(st.ymd) + 1
    IN  IF lab = "M" /\ st.mstridx # 0 THEN [st EXCEPT !.err = TRUE]
        ELSE IF lab = "Y" /\ st.ystridx # 0 THEN [st EXCEPT !.err = TRUE]
        ELSE [st EXCEPT !.ymd = Append(st.ymd, val),
                        !.mstridx = IF lab = "M" THEN n ELSE @,
                        !.ystridx = IF lab = "Y" THEN n ELSE @,
                        !.century = IF val > 100 THEN TRUE ELSE @]

(* One token of parser._parse.  A number met when year, month and day are  *)
(* all taken and no hour is set is read as a time, HH or HHMM.             *)
ParseToken(st, tok) ==
    IF st.err THEN st
    ELSE IF tok.k = "word" THEN [st EXCEPT !.err = TRUE]
    ELSE IF tok.k = "mon" THEN YmdAppend(st, tok.v, "M")
    ELSE IF Len(st.ymd) = 3 /\ tok.len \in {2, 4} /\ st.hour = -1
         THEN IF tok.len = 4
              THEN [st EXCEPT !.hour = tok.v \div 100, !.minute = tok.v % 100]
              ELSE [st EXCEPT !.hour = tok.v]
    ELSE YmdAppend(st, tok.v, "")

RECURSIVE ParseTokens(_, _)
ParseTokens(st, toks) ==
    IF Len(toks) = 0 THEN st
    ELSE ParseTokens(ParseToken(st, Head(toks)), Tail(toks))

(* _ymd.resolve_ymd(yearfirst=False, dayfirst=False): <<year, month, day>> *)
(* with 0 for a member left to the default; ok is FALSE for ValueError.     *)
Ymd(y, m, d) == [ok |-> TRUE, y |-> y, m |-> m, d |-> d]
YmdError == [ok |-> FALSE, y |-> 0, m |-> 0, d |-> 0]

resolve_ymd(st) ==
    LET a == st.ymd
        n == Len(a)
        mi == st.mstridx
        yi == st.ystridx
        nstr == (IF mi # 0 THEN 1 ELSE 0) + (IF yi # 0 THEN 1 ELSE 0)
    IN  IF n = nstr /\ n > 0 THEN
            Ymd(IF yi # 0 THEN a[yi] ELSE 0, IF mi # 0 THEN a[mi] ELSE 0, 0)
        ELSE IF n = 3 /\ nstr = 2 THEN
            Ymd(a[yi], a[mi], a[CHOOSE i \in 1..3 : i # yi /\ i # mi])
        ELSE IF n > 3 THEN YmdError
        ELSE IF n = 0 THEN Ymd(0, 0, 0)
        ELSE IF n = 1 \/ (mi # 0 /\ n = 2) THEN
            LET other == IF mi # 0 THEN a[3 - mi] ELSE a[1]
                month == IF mi # 0 THEN a[mi] ELSE 0
            IN  IF n > 1 \/ mi = 0
                THEN IF other > 31 THEN Ymd(other, month, 0)
                     ELSE Ymd(0, month, other)
                ELSE Ymd(0, month, 0)
        ELSE IF n = 2 THEN
            IF a[1] > 31 THEN Ymd(a[1], a[2], 0)
            ELSE IF a[2] > 31 THEN Ymd(a[2], a[1], 0)
            ELSE Ymd(0, a[1], a[2])
        ELSE IF mi = 1 THEN
            IF a[2] > 31 THEN Ymd(a[2], a[1], a[3]) ELSE Ymd(a[3], a[1], a[2])
        ELSE IF mi = 2 THEN
            IF a[1] > 31 THEN Ymd(a[1], a[2], a[3]) ELSE Ymd(a[3], a[2], a[1])
        ELSE IF mi = 3 THEN
            IF a[2] > 31 THEN Ymd(a[2], a[3], a[1]) ELSE Ymd(a[1], a[3], a[2])
        ELSE IF a[1] > 31 \/ yi = 1 THEN Ymd(a[1], a[2], a[3])
        ELSE IF a[1] > 12 THEN Ymd(a[3], a[2], a[1])
        ELSE Ymd(a[3], a[1], a[2])

(* parserinfo.convertyear: a year without century is placed within fifty   *)
(* years of the year the parser was created in.                            *)
convertyear(year, century_specified) ==
    IF year < 100 /\ ~century_specified THEN
        LET y == year + (StartYear \div 100) * 100
        IN  IF y >= StartYear + 50 THEN y - 100
            ELSE IF y < StartYear - 50 THEN y + 100
            ELSE y
    ELSE year

Date(y, m, d) == [ok |-> TRUE, y |-> y, m |-> m, d |-> d]
ParserError == [ok |-> FALSE, y |-> 0, m |-> 0, d |-> 0]

(* parser.parse(timestr) with default = today: members the string leaves   *)
(* out come from today, a defaulted day is clamped to the month's length,  *)
(* and datetime.replace rejects what is no date or no time of day.         *)
date_parse(toks, today) ==
    LET st == ParseTokens(Ymd0, toks)
        r == resolve_ymd(st)
    IN  IF st.err \/ ~r.ok THEN ParserError
        ELSE IF Len(st.ymd) = 0 /\ st.hour = -1 THEN ParserError
        ELSE LET year == IF r.y # 0 THEN convertyear(r.y, st.century)
                         ELSE today.year
                 month == IF r.m # 0 THEN r.m ELSE today.month
             IN  IF month \notin 1..12 \/ year \notin 1..9999 THEN ParserError
                 ELSE LET last == DaysInMonth(year, month)
                          day == IF r.d # 0 THEN r.d
                                 ELSE IF today.day > last THEN last
                                 ELSE today.day
                      IN  IF day \notin 1..last THEN ParserError
                          ELSE IF st.hour > 23 \/ st.minute > 59 THEN ParserError
                          ELSE Date(year, month, day)

(* Line 223: the current year is appended to the raw date, then parsed.    *)
ResolveDate_NoAppend(date_str, today) == date_parse(date_str, today)

ResolveDate(date_str, today) ==
    date_parse(Append(date_str, NumTok(today.year)), today)

----------------------------------------------------------------------------
(* The objects the oracle's JSON can hold, and what Python does with the   *)
(* parsed value.                                                           *)

(* "oA" {"event": "Quiz 1", "date": "Sept 5"}                              *)
(* "oB" {"event": "Exam",   "date": "TBD"}                                 *)
(* "oC" {"event": "HW 1"}                                                  *)
HasDate(item) == item.t = "obj" /\ item.id \in {"oA", "oB"}

(* item.get('event', 'Untitled Event'), line 218 *)
event_name(item) ==
    IF item.t = "obj"
    THEN (IF item.id = "oA" THEN "Quiz 1"
          ELSE IF item.id = "oB" THEN "Exam" ELSE "HW 1")
    ELSE "Untitled Event"

(* item.get('date', ''), line 219 *)
date_str(item) ==
    IF HasDate(item)
    THEN (IF item.id = "oA" THEN <<MonTok(9), NumTok(5)>> ELSE <<WordTok>>)
    ELSE <<>>

(* bool(events_and_dates), line 109 *)
Truthy(val) == IF val.t = "arr" THEN Len(val.v) > 0 ELSE val.t # "none"

(* What `for item in events` iterates over: a list's elements, a dict's    *)
(* keys (strings); a number is not iterable.                               *)
Iterable(val) == val.t \in {"arr", "obj", "dict"}

Items(val) ==
    IF val.t = "arr" THEN val.v
    ELSE IF val.t = "obj" /\ val.id \in {"oA", "oB"} THEN <<StrVal, StrVal>>
    ELSE <<StrVal>>

(* Only a dict has .get (lines 218-219). *)
HasGet(item) == item.t \in {"obj", "dict"}

----------------------------------------------------------------------------
(* State *)

StartDay == [year |-> StartYear, month |-> 12, day |-> 31]

NoResult == [kind |-> "none", via |-> "", count |-> 0]
RaisedOut(e) == [kind |-> "raised", via |-> e, count |-> 0]
ReturnedCount(via, n) == [kind |-> "returned", via |-> via, count |-> n]

Pending == [raised |-> FALSE, exc |-> "pending", val |-> NoVal]
Unresolved == [ok |-> FALSE, y |-> -1, m |-> -1, d |-> -1]

RECURSIVE Join(_)
Join(elems) ==
    IF Len(elems) = 0 THEN <<>>
    ELSE IF Len(elems) = 1 THEN elems
    ELSE <<Head(elems), ",">> \o Join(Tail(elems))

ArrayText(elems) == <<"[">> \o Join(elems) \o <<"]">>

(* The oracle responses of the synchronisation runs: every JSON array of   *)
(* up to MaxBatch elements, and JSON that is no array.                     *)
SyncResponses ==
    {ArrayText(e) : e \in SeqsUpTo(ObjectLexemes \cup {"n"}, MaxBatch)}
        \cup {<<"n">>, <<"oA">>, <<"{k", "n", "}">>}

ExtractIdle == oracle = ChatNoKey /\ extracted = Pending
ResolveIdle == rawDate = <<>> /\ resolved = Unresolved

Init ==
    /\ pc = "idle"
    /\ response \in SyncResponses
    /\ events = NoVal
    /\ idx = 0
    /\ added_count = 0
    /\ calendar = <<>>
    /\ now = StartDay
    /\ ticks = 0
    /\ runs = 0
    /\ result = NoResult
    /\ issued = {}
    /\ skipped = {}
    /\ ExtractIdle
    /\ ResolveIdle

----------------------------------------------------------------------------
(* upload_file and add_events_to_calendar *)

(* Lines 101-113: extract, then sync when the extractor's value is truthy. *)
Upload ==
    /\ pc = "idle"
    /\ runs < MaxRuns
    /\ runs' = runs + 1
    /\ LET ex == extract_events_with_ollama(ChatText(response))
       IN  IF ex.raised
           THEN /\ result' = RaisedOut(ex.exc)
                /\ UNCHANGED <<pc, events, idx, added_count, issued, skipped>>
           ELSE /\ events' = ex.val
                /\ IF Truthy(ex.val)
                   THEN /\ pc' = "sync"
                        /\ idx' = 1
                        /\ added_count' = 0
                        /\ issued' = {}
                        /\ skipped' = {}
                        /\ result' = NoResult
                   ELSE /\ result' = [kind |-> "noevents", via |-> "", count |-> 0]
                        /\ UNCHANGED <<pc, idx, added_count, issued, skipped>>
    /\ UNCHANGED <<response, calendar, now, ticks, oracle, extracted, rawDate,
                   resolved>>

(* The wall clock moves on while the request is served. *)
ClockTick ==
    /\ ticks < MaxTicks
    /\ ticks' = ticks + 1
    /\ now' = NextDay(now)
    /\ UNCHANGED <<pc, response, events, idx, added_count, calendar, runs,
                   result, issued, skipped, oracle, extracted, rawDate, resolved>>

Finish(r) ==
    /\ pc' = "idle"
    /\ result' = r

(* Line 217 on a value that cannot be iterated: TypeError, which the        *)
(* handler of line 249 does not catch.                                      *)
NotIterable ==
    /\ pc = "sync"
    /\ ~Iterable(events)
    /\ Finish(RaisedOut("TypeError"))
    /\ UNCHANGED <<response, events, idx, added_count, calendar, now, ticks,
                   runs, issued, skipped, oracle, extracted, rawDate, resolved>>

(* Line 247: the loop is exhausted. *)
LoopEnd ==
    /\ pc = "sync"
    /\ Iterable(events)
    /\ idx > Len(Items(events))
    /\ Finish(ReturnedCount("loop_end", added_count))
    /\ UNCHANGED <<response, events, idx, added_count, calendar, now, ticks,
                   runs, issued, skipped, oracle, extracted, rawDate, resolved>>

AtItem ==
    /\ pc = "sync"
    /\ Iterable(events)
    /\ idx <= Len(Items(events))

item == Items(events)[idx]

(* Lines 218-219 on an item that is no dict: AttributeError, uncaught. *)
ItemNotObject ==
    /\ AtItem
    /\ ~HasGet(item)
    /\ Finish(RaisedOut("AttributeError"))
    /\ UNCHANGED <<response, events, idx, added_count, calendar, now, ticks,
                   runs, issued, skipped, oracle, extracted, rawDate, resolved>>

(* Lines 224-226: the date does not parse; the item is skipped. *)
DateUnresolvable_Aborts ==
    /\ AtItem
    /\ HasGet(item)
    /\ ~ResolveDate(date_str(item), now).ok
    /\ skipped' = skipped \cup {idx}
    /\ Finish(ReturnedCount("date_error", added_count))
    /\ UNCHANGED <<response, events, idx, added_count, calendar, now, ticks,
                   runs, issued, oracle, extracted, rawDate, resolved>>

DateUnresolvable ==
    /\ AtItem
    /\ HasGet(item)
    /\ ~ResolveDate(date_str(item), now).ok
    /\ skipped' = skipped \cup {idx}
    /\ idx' = idx + 1
    /\ UNCHANGED <<pc, response, events, added_count, calendar, now, ticks,
                   runs, result, issued, oracle, extracted, rawDate, resolved>>

(* Lines 229-240: the all-day event built from the resolved date. *)
event_body(it, d) ==
    [run |-> runs, item |-> idx, summary |-> event_name(it),
     date |-> <<d.y, d.m, d.d>>]

(* Lines 243-245: the insert is accepted; the store holds one more event. *)
InsertAccepted ==
    /\ AtItem
    /\ HasGet(item)
    /\ LET d == ResolveDate(date_str(item), now)
       IN  /\ d.ok
           /\ calendar' = Append(calendar, event_body(item, d))
    /\ issued' = issued \cup {idx}
    /\ added_count' = added_count + 1
    /\ idx' = idx + 1
    /\ UNCHANGED <<pc, response, events, now, ticks, runs, result, skipped,
                   oracle, extracted, rawDate, resolved>>

(* Lines 249-251: what the HttpError handler returns. *)
OnHttpError(count) == 0

(* Line 243 raises HttpError: the handler of line 249 ends the call. *)
InsertHttpError ==
    /\ AtItem
    /\ HasGet(item)
    /\ ResolveDate(date_str(item), now).ok
    /\ issued' = issued \cup {idx}
    /\ Finish(ReturnedCount("HttpError", OnHttpError(added_count)))
    /\ UNCHANGED <<response, events, idx, added_count, calendar, now, ticks,
                   runs, skipped, oracle, extracted, rawDate, resolved>>

Next ==
    \/ Upload
    \/ ClockTick
    \/ NotIterable
    \/ LoopEnd
    \/ ItemNotObject
    \/ DateUnresolvable
    \/ InsertAccepted
    \/ InsertHttpError

Spec == Init /\ [][Next]_vars

----------------------------------------------------------------------------
(* extract_events_with_ollama on its own, over bounded oracle behaviours *)

Lexemes == {"[", "]", ",", "{k", "}", "w", "oA"}

OracleBehaviours ==
    {ChatRaises(e) : e \in {"ConnectionError", "JSONDecodeError"}}
        \cup {ChatNoKey}
        \cup {ChatText(t) : t \in SeqsUpTo(Lexemes, MaxLen)}

SyncIdle ==
    /\ pc = "idle"
    /\ response = <<>>
    /\ events = NoVal
    /\ idx = 0
    /\ added_count = 0
    /\ calendar = <<>>
    /\ now = StartDay
    /\ ticks = 0
    /\ runs = 0
    /\ result = NoResult
    /\ issued = {}
    /\ skipped = {}

InitExtract ==
    /\ SyncIdle
    /\ ResolveIdle
    /\ oracle \in OracleBehaviours
    /\ extracted = Pending

Extract ==
    /\ extracted = Pending
    /\ extracted' = extract_events_with_ollama(oracle)
    /\ UNCHANGED <<syncVars, oracle, resolveVars>>

NextExtract == Extract

SpecExtract == InitExtract /\ [][NextExtract]_vars

----------------------------------------------------------------------------
(* The date resolution of line 223 on its own, over bounded raw dates *)

(* "Sept", "5", "15", "31", "2024", and a word that is no date ("TBD") *)
DateTokens ==
    {MonTok(9), NumTok(5), NumTok(15), NumTok(31), NumTok(2024), WordTok}

InitResolve ==
    /\ SyncIdle
    /\ ExtractIdle
    /\ rawDate \in SeqsUpTo(DateTokens, MaxRawLen)
    /\ resolved = Unresolved

ResolveTick ==
    /\ resolved = Unresolved
    /\ ClockTick

Resolve ==
    /\ resolved = Unresolved
    /\ resolved' = ResolveDate(rawDate, now)
    /\ UNCHANGED <<syncVars, extractVars, rawDate>>

NextResolve ==
    \/ ResolveTick
    \/ Resolve

SpecResolve == InitResolve /\ [][NextResolve]_vars

----------------------------------------------------------------------------
(* Properties of the synchronisation (Spec) *)

N == Len(Items(events))
Resolvable(i) == ResolveDate(date_str(Items(events)[i]), now).ok
InsertedBy(r) == {calendar[k].item : k \in {j \in DOMAIN calendar : calendar[j].run = r}}
EntriesOf(r) == {k \in DOMAIN calendar : calendar[k].run = r}
CallReturned == pc = "idle" /\ result.kind = "returned"

(* C1: when an insert fails with a service error, the call returns the     *)
(* number of inserts that had already succeeded in this call (k - 1), not  *)
(* a reset value.                                                          *)
C1_PartialCountOnServiceError ==
    (CallReturned /\ result.via = "HttpError")
        => result.count = Cardinality(EntriesOf(runs))

(* C2: an unresolvable date never aborts the batch.  No insert is issued   *)
(* for an item whose date does not resolve; a call that returns has ended  *)
(* either at an HttpError or at the end of the loop, and at the end of the *)
(* loop every item was either skipped for its date or inserted, the        *)
(* inserted items being exactly the resolvable ones.                       *)
C2_BadDateNeverAborts ==
    /\ issued \cap skipped = {}
    /\ pc = "sync" /\ Iterable(events)
          => \A i \in issued \cap 1..N : HasGet(Items(events)[i]) /\ Resolvable(i)
    /\ CallReturned => result.via \in {"HttpError", "loop_end"}
    /\ (CallReturned /\ result.via = "loop_end")
          => /\ issued \cup skipped = 1..N
             /\ InsertedBy(runs) = {i \in 1..N : Resolvable(i)}
             /\ result.count = Cardinality(1..N \ skipped)

(* C2's case: a batch whose unresolvable item is followed by a resolvable  *)
(* one has been synchronised to the end, the later item inserted.          *)
C2_Witness ==
    /\ CallReturned
    /\ result.via = "loop_end"
    /\ \E i \in skipped, j \in InsertedBy(runs) : i < j

(* C6: the returned count is the number of inserts that completed in this  *)
(* call, is at most N - M for a batch of N of which M fail date            *)
(* resolution, and is exactly N - M when every insert was accepted.        *)
C6_SyncCount ==
    CallReturned =>
        LET M == Cardinality({i \in 1..N : ~Resolvable(i)})
        IN  /\ result.count = Cardinality(EntriesOf(runs))
            /\ result.count <= N - M
            /\ result.via = "loop_end" => result.count = N - M

(* C7: synchronising the same candidate list a second time, the calendar   *)
(* having accepted every insert of both runs, adds no event to the store.  *)
C7_ResyncAddsNothing ==
    (/\ CallReturned
     /\ runs = 2
     /\ result.via = "loop_end"
     /\ InsertedBy(1) = {i \in 1..N : Resolvable(i)})
        => EntriesOf(2) = {}

(* C9: add_events_to_calendar never propagates an exception to             *)
(* upload_file, whatever value the extractor returned.                     *)
C9_SyncNeverRaises == result.kind # "raised"

(* C10: two items of one batch with the same raw date get the same         *)
(* calendar date, whatever the wall clock does while the loop runs.        *)
C10_SameRawDateSameDay ==
    \A a, b \in DOMAIN calendar :
        (/\ calendar[a].run = calendar[b].run
         /\ HasDate(Items(events)[calendar[a].item])
         /\ date_str(Items(events)[calendar[a].item])
                = date_str(Items(events)[calendar[b].item]))
            => calendar[a].date = calendar[b].date

----------------------------------------------------------------------------
(* Properties of the extractor (SpecExtract) *)

Ran == extracted # Pending
Text == oracle.text

(* The decompositions  P \o A \o S  of the response with A a JSON array.   *)
Arrays ==
    {ij \in (1..Len(Text)) \X (1..Len(Text)) :
        /\ ij[1] < ij[2]
        /\ Text[ij[1]] = "["
        /\ json_loads(SubSeq(Text, ij[1], ij[2])).ok}

ArrayAt(ij) == json_loads(SubSeq(Text, ij[1], ij[2])).val
CleanProse(ij) ==
    /\ \A k \in 1..(ij[1] - 1) : Text[k] # "["
    /\ \A k \in (ij[2] + 1)..Len(Text) : Text[k] # "]"

(* C3: the extractor never raises, and returns the empty list whenever     *)
(* the oracle call itself raised.                                          *)
C3_ExtractorNeverRaises ==
    Ran => /\ ~extracted.raised
           /\ oracle.kind = "raise" => extracted.val = EmptyList

(* C4 as claimed: a valid JSON array wrapped in any prose, brackets        *)
(* included, yields the candidates of the bare array.                      *)
C4_RepairAnyProse ==
    (Ran /\ oracle.kind = "text")
        => \A ij \in Arrays : extracted = Returned(ArrayAt(ij))

(* C4: a valid JSON array wrapped in prose with no "[" before it and no    *)
(* "]" after it yields the candidates of the bare array, one per element   *)
(* and in order.                                                           *)
C4_RepairCleanProse ==
    (Ran /\ oracle.kind = "text")
        => \A ij \in Arrays :
              CleanProse(ij) =>
                  /\ extracted = Returned(ArrayAt(ij))
                  /\ extracted = extract_events_with_ollama(
                                     ChatText(SubSeq(Text, ij[1], ij[2])))
                  /\ Len(extracted.val.v) =
                        IF ij[2] = ij[1] + 1 THEN 0
                        ELSE 1 + Cardinality(
                                 TopCommas(SubSeq(Text, ij[1] + 1, ij[2] - 1)))

(* C4's case: a non-empty array with prose on both sides was extracted.    *)
C4_Witness ==
    /\ Ran
    /\ oracle.kind = "text"
    /\ \E ij \in Arrays :
          /\ CleanProse(ij)
          /\ ij[1] > 1
          /\ ij[2] < Len(Text)
          /\ Len(extracted.val.v) > 0

(* The widest bracketed span of the response, or the whole response when   *)
(* it has none.                                                            *)
HasSpan == \E i, j \in 1..Len(Text) : i < j /\ Text[i] = "[" /\ Text[j] = "]"
WidestSpan ==
    SubSeq(Text, Min({i \in 1..Len(Text) : Text[i] = "["}),
                 Max({j \in 1..Len(Text) : Text[j] = "]"}))
Parsed == IF HasSpan THEN WidestSpan ELSE Text

(* C5 as claimed: a response that is malformed as a whole yields the       *)
(* empty list.                                                             *)
C5_MalformedYieldsEmpty ==
    (Ran /\ oracle.kind = "text" /\ ~json_loads(Text).ok)
        => extracted = Returned(EmptyList)

(* C5: the extractor returns the empty list whenever the text it parses,   *)
(* the widest bracketed span or else the whole response, is malformed; a   *)
(* response malformed as a whole whose widest span parses yields that      *)
(* span's value.                                                           *)
C5_MalformedSpanYieldsEmpty ==
    (Ran /\ oracle.kind = "text")
        => /\ ~json_loads(Parsed).ok => extracted = Returned(EmptyList)
           /\ json_loads(Parsed).ok
                 => extracted = Returned(json_loads(Parsed).val)

(* C5's case: a response with a bracketed span that does not parse was     *)
(* answered with the empty list.                                           *)
C5_Witness ==
    /\ Ran
    /\ oracle.kind = "text"
    /\ HasSpan
    /\ ~json_loads(WidestSpan).ok
    /\ extracted = Returned(EmptyList)

----------------------------------------------------------------------------
(* Properties of the date resolution (SpecResolve) *)

ExplicitYears == {rawDate[k].v : k \in {j \in DOMAIN rawDate : rawDate[j].len = 4}}

(* C8: a raw date that holds an explicit 4-digit year resolves, and to     *)
(* that year, whatever year is appended.  Stated for the raw dates that    *)
(* name a month and are dates on their own (they parse with nothing        *)
(* appended), such as "Sept 2024" and "Sept 15 2024".                      *)
C8_ExplicitYearWins ==
    (/\ resolved # Unresolved
     /\ ExplicitYears # {}
     /\ \E k \in DOMAIN rawDate : rawDate[k].k = "mon"
     /\ date_parse(rawDate, now).ok)
        => /\ resolved.ok
           /\ resolved.y \in ExplicitYears

====
